---- MODULE Spec2Model ----
(***************************************************************************)
(* Model of consensus/src/chained_bft/chained_bft_smr.rs: the lifecycle    *)
(* handle ChainedBftSMR (start / stop), the Startup-Recovery sub-loop      *)
(* gen_event_processor and the steady-state loop of                        *)
(* start_event_processing, together with the collaborators they drive      *)
(* (EpochManager, NetworkReceivers, NetworkTask, the pacemaker's timeout   *)
(* sender).                                                                *)
(***************************************************************************)
EXTENDS Integers, Sequences, FiniteSets, TLC

(* ------------------------------- bounds -------------------------------- *)
\* messages enqueued over one run (network messages and local timeouts)
MaxSent == 2
\* epochs range over 1..MaxEpoch
MaxEpoch == 2
\* clock ticks within one loop iteration
MaxTick == 2
\* messages a bounded channel holds before its sender suspends
Capacity == 1
\* messages sent by peers and by the pacemaker where the channels are bounded
MaxLive == MaxSent + 1

Epochs == 1..MaxEpoch

(* --------------------------- message sources --------------------------- *)
\* the fields of NetworkReceivers the two loops read
BundleKinds ==
    {"proposal", "vote", "sync_info", "block_retrieval",
     "epoch_change", "different_epoch", "epoch_retrieval"}

\* pacemaker_timeout_sender_rx: a receiver of its own, outside the bundle
TimeoutKind == "local_timeout"

\* the eight arms of the select! of the steady-state loop
SteadyKinds == BundleKinds \cup {TimeoutKind}

\* SyncKinds with the sub-loop reading every receiver of the steady-state loop
SyncKindsAll == BundleKinds \cup {TimeoutKind}

\* the five arms of the select! of the Startup-Recovery sub-loop
SyncKinds == {"proposal", "vote", "sync_info", "epoch_change", "different_epoch"}

\* arms whose message goes to a process_* handler of the EventProcessor
ProcessorKinds ==
    {"proposal", "block_retrieval", "vote", "local_timeout", "sync_info"}

\* arms whose message goes to the EpochManager
ManagerKinds == {"different_epoch", "epoch_retrieval"}

\* arms of the sub-loop whose message goes to the StartupSyncProcessor
RecoveryKinds == {"proposal", "vote", "sync_info"}

NoMsg == [kind |-> "none", ep |-> 0, id |-> 0, at |-> 0]
NoCall == [target |-> "none", kind |-> "none", ep |-> 0, id |-> 0,
           proc |-> 0, procEpoch |-> 0]
NoSample == [idle |-> 0, busy |-> 0, total |-> 0]

VARIABLES
    \* ChainedBftSMR
    input,        \* self.input is Some
    runtime,      \* self.runtime is Some
    block_store,  \* self.block_store: 0 for None, else the processor whose tree it is
    \* the caller of start() / stop()
    callerPc,     \* "idle" | "starting"
    startResult,  \* outcome of the latest start() call
    started,      \* start() has been called
    \* the Tokio runtime built by start() and what was spawned on it
    rtAlive,      \* a runtime holding the spawned tasks exists
    netSpawned,   \* number of NetworkTask spawned
    loopSpawned,  \* number of event loops spawned
    \* EpochManager
    epoch,        \* epoch_manager.epoch()
    \* Processor
    variant,      \* "None" | "StartupSyncProcessor" | "EventProcessor"
    procId,       \* identity of the current EventProcessor, 0 when there is none
    procEpoch,    \* epoch the current EventProcessor was built for
    hooks,        \* calls of start() on the current EventProcessor
    \* channels
    chan,         \* kind -> queue of messages
    sent,         \* messages enqueued so far; the next message gets id sent + 1
    \* the spawned future
    pc,           \* position in gen_event_processor / start_event_processing
    cur,          \* the message the select! yielded
    inflight,     \* handler calls in progress
    calls,        \* handler calls made for cur
    call,         \* the handler call in progress
    \* history
    storageKind,  \* what epoch_mgr.start(liveness_storage_data) resolved
    subLoopEntered, \* the loop of gen_event_processor was entered
    resolutions,  \* Startup-Recovery -> Steady-State transitions
    transitions,  \* start_new_epoch calls
    prevEpoch,    \* epoch_manager.epoch() before the latest start_new_epoch
    transSent,    \* value of sent at the latest start_new_epoch
    selSent,      \* value of sent when the latest accepted notification was selected
    resolveSent,  \* value of sent when recovery data resolved the sub-loop
    dequeued,     \* messages dequeued so far
    iters,        \* loop iterations completed (a message selected and its arm left)
    samples,      \* timing samples recorded
    handled,      \* ids of the messages the select! has yielded
    wire,         \* network_events: messages of peers the Network Task has yet to take
    \* Instant::now()
    elapsed,      \* pre_select_instant.elapsed()
    idle,         \* idle_duration
    sample        \* the latest sample recorded

handleVars == <<input, runtime, block_store, callerPc, startResult, started>>
spawnVars == <<rtAlive, netSpawned, loopSpawned>>
procVars == <<epoch, variant, procId, procEpoch, hooks>>
chanVars == <<chan, sent>>
loopVars == <<pc, cur, inflight, calls, call>>
histVars == <<storageKind, subLoopEntered, resolutions, transitions, prevEpoch,
              transSent, selSent, resolveSent, dequeued,
              iters, samples>>
timeVars == <<elapsed, idle, sample>>
resVars == <<handled>>
vars == <<handleVars, spawnVars, procVars, chanVars, loopVars, histVars, timeVars,
          resVars, wire>>

(* ------------------------------ helpers -------------------------------- *)
Enqueue(c, k, m) == [c EXCEPT ![k] = Append(@, m)]

\* Dequeue with the message left at the head of its receiver
DequeueKeeps(c, k) == c

\* select_next_some() takes the message off receiver k
Dequeue(c, k) == [c EXCEPT ![k] = Tail(@)]

\* Selected with the newest message of receiver k yielded
SelectedNewest(c, k) ==
    [kind |-> k, ep |-> c[k][Len(c[k])].ep, id |-> c[k][Len(c[k])].id, at |-> sent]

\* what select_next_some() yields on receiver k
Selected(c, k) == [kind |-> k, ep |-> Head(c[k]).ep, id |-> Head(c[k]).id, at |-> sent]

\* the handler call a select! arm makes on receiving a message of kind k
CallOf(target, m) ==
    [target |-> target, kind |-> m.kind, ep |-> m.ep, id |-> m.id,
     proc |-> procId, procEpoch |-> procEpoch]

\* EpochGuard with every notification accepted
EpochGuardAlways(current, notified) == TRUE

\* EpochGuard with a strict comparison
EpochGuardStrict(current, notified) == current < notified

\* if epoch_manager.epoch() <= ledger_info.ledger_info().epoch()
EpochGuard(current, notified) == current <= notified

\* EpochManager::start_new_epoch(ledger_info): the epoch the manager is in
\* afterwards, the one the new EventProcessor is built for
EpochAfterStartNewEpoch(notified) == notified

\* StartupSyncProcessor::process_*: recovery data can come only from a message
\* of the epoch the manager is in
CanRecoverFrom(m, current) == m.ep = current

\* network_receivers.clear_prev_epoch_msgs(): drops what the bundle buffers;
\* the timeout receiver is not a field of the bundle
ClearPrevEpochMsgs(c) ==
    [k \in SteadyKinds |-> IF k \in BundleKinds THEN <<>> ELSE c[k]]

\* counters::*_DURATION_S.observe_duration: busy is elapsed() - idle_duration
TimingSample(el, id) == [idle |-> id, busy |-> el - id, total |-> el]

\* the select! of the sub-loop polls when the loop is at its top
SyncSelectReady == pc = "sync_select"

\* SelectReady with the select! polled again while a handler call is pending
SelectReadyEarly == pc \in {"select", "handle"}

\* the select! of the steady-state loop polls when the loop is at its top
SelectReady == pc = "select"

\* AfterIteration with the steady-state loop left after one iteration
AfterIterationExits == "done"

\* loop { .. }: the end of the body of the steady-state loop leads to its top
AfterIteration == "select"

\* AfterBreak with the sub-loop going on after the processor was built
AfterBreakStays == "sync_record"

\* break <processor>: the sub-loop is left, gen_event_processor returns and
\* start_event_processing goes on with event_processor.start()
AfterBreak == "start"

\* AfterDifferentEpoch with the arm leaving the sub-loop
AfterDifferentEpochBreaks == AfterBreak

\* the different-epoch arm of the sub-loop has no break: the body goes on to
\* the timing sample and the loop to its next iteration
AfterDifferentEpoch == "sync_record"

\* AfterClear with the new processor put to use without its start hook
AfterClearSkipsStart == "record"

\* steady-state epoch-change arm: after clear_prev_epoch_msgs() comes
\* event_processor.start().await
AfterClear == "ec_start"

\* AliveAfterStop with the spawned tasks left running on a detached runtime
AliveAfterStopDetached(alive) == alive

\* stop(): the runtime taken out of self.runtime is dropped when the if let ends,
\* which waits for the worker threads and tears the spawned tasks down
AliveAfterStop(alive) == FALSE

\* TakeInput with the input left in place
TakeInputKeeps(i) == i

\* self.input.take(): what is left in self.input
TakeInput(i) == FALSE

\* BlockStoreOfHandle with the handle following the loop's processor
BlockStoreOfHandleFollows(b, p) == p

\* self.block_store once the loop has made p its processor: event_processor is a
\* local of the spawned future, which holds no reference to self
BlockStoreOfHandle(b, p) == b

\* PublishedBlockStore with the reference set whatever the variant
PublishedBlockStoreAlways(kind, p) == p

\* what start() publishes: Some(p.block_store()) for Processor::EventProcessor
PublishedBlockStore(kind, p) == IF kind = "EventProcessor" THEN p ELSE 0

\* match processor { StartupSyncProcessor => loop .., EventProcessor(p) => p }
EntersSubLoop(v) == v = "StartupSyncProcessor"

(* -------------------------------- Init --------------------------------- *)
\* ChainedBftSMR::new
Init ==
    /\ input = TRUE
    /\ runtime = FALSE
    /\ block_store = 0
    /\ callerPc = "idle"
    /\ startResult = "none"
    /\ started = FALSE
    /\ rtAlive = FALSE
    /\ netSpawned = 0
    /\ loopSpawned = 0
    /\ epoch = 0
    /\ variant = "None"
    /\ procId = 0
    /\ procEpoch = 0
    /\ hooks = 0
    /\ chan = [k \in SteadyKinds |-> <<>>]
    /\ sent = 0
    /\ pc = "none"
    /\ cur = NoMsg
    /\ inflight = 0
    /\ calls = 0
    /\ call = NoCall
    /\ storageKind = "none"
    /\ subLoopEntered = FALSE
    /\ resolutions = 0
    /\ transitions = 0
    /\ prevEpoch = 0
    /\ transSent = 0
    /\ selSent = 0
    /\ resolveSent = 0
    /\ dequeued = 0
    /\ iters = 0
    /\ samples = 0
    /\ elapsed = 0
    /\ idle = 0
    /\ sample = NoSample
    /\ handled = {}
    /\ wire = <<>>

(* --------------------------- ChainedBftSMR ----------------------------- *)
\* start(), second and later calls: self.input.take().expect(..) panics; the
\* runtime built just before is a local and is dropped by the unwinding
StartPanic ==
    /\ callerPc = "idle"
    /\ ~input
    /\ started' = TRUE
    /\ startResult' = "panic"
    /\ UNCHANGED <<input, runtime, block_store, callerPc>>
    /\ UNCHANGED <<spawnVars, procVars, chanVars, loopVars, histVars, timeVars>>
    /\ UNCHANGED resVars
    /\ UNCHANGED wire

\* start() up to and including start_event_processing: the input is taken,
\* storage is recovered, the EpochManager resolves the Processor, the block
\* store is published, the NetworkTask and the loop are spawned
StartSpawn ==
    /\ callerPc = "idle"
    /\ input
    /\ \E kind \in {"StartupSyncProcessor", "EventProcessor"}, e \in Epochs :
          /\ storageKind' = kind
          /\ epoch' = e
          /\ variant' = kind
          /\ procId' = IF kind = "EventProcessor" THEN 1 ELSE 0
          /\ procEpoch' = IF kind = "EventProcessor" THEN e ELSE 0
          /\ block_store' = PublishedBlockStore(kind, 1)
    /\ input' = TakeInput(input)
    /\ started' = TRUE
    /\ callerPc' = "starting"
    /\ rtAlive' = TRUE
    /\ netSpawned' = netSpawned + 1
    /\ loopSpawned' = loopSpawned + 1
    /\ pc' = "gen"
    /\ UNCHANGED <<runtime, startResult, hooks, chanVars, cur, inflight, calls, call>>
    /\ UNCHANGED <<subLoopEntered, resolutions, transitions, prevEpoch, transSent,
                   selSent, resolveSent, dequeued, iters, samples, timeVars>>
    /\ UNCHANGED resVars
    /\ UNCHANGED wire

\* start(), its end: self.runtime = Some(runtime); Ok(())
StartReturn ==
    /\ callerPc = "starting"
    /\ runtime' = TRUE
    /\ startResult' = "Ok"
    /\ callerPc' = "idle"
    /\ UNCHANGED <<input, block_store, started>>
    /\ UNCHANGED <<spawnVars, procVars, chanVars, loopVars, histVars, timeVars>>
    /\ UNCHANGED resVars
    /\ UNCHANGED wire

\* stop(): self.runtime.take() drops the runtime and with it the spawned tasks
Stop ==
    /\ callerPc = "idle"
    /\ runtime
    /\ runtime' = FALSE
    /\ rtAlive' = AliveAfterStop(rtAlive)
    /\ UNCHANGED <<input, block_store, callerPc, startResult, started>>
    /\ UNCHANGED <<netSpawned, loopSpawned, procVars, chanVars, loopVars, histVars,
                   timeVars>>
    /\ UNCHANGED resVars
    /\ UNCHANGED wire

(* ------------------------------ producers ------------------------------ *)
\* NetworkTask::start: a message from a peer is put on the receiver of its kind;
\* a different-epoch or epoch-retrieval message comes from a peer in another epoch
NetworkTaskSend(k, e) ==
    /\ rtAlive
    /\ netSpawned > 0
    /\ sent < MaxSent
    /\ k \in ManagerKinds => e # epoch
    /\ chan' = Enqueue(chan, k, [ep |-> e, id |-> sent + 1])
    /\ sent' = sent + 1
    /\ UNCHANGED <<handleVars, spawnVars, procVars, loopVars, histVars, timeVars>>
    /\ UNCHANGED resVars
    /\ UNCHANGED wire

\* the pacemaker of the running EventProcessor sends a round on timeout_sender
LocalTimeout ==
    /\ rtAlive
    /\ variant = "EventProcessor"
    /\ hooks > 0
    /\ sent + Len(wire) < MaxSent
    /\ chan' = Enqueue(chan, TimeoutKind, [ep |-> procEpoch, id |-> sent + 1])
    /\ sent' = sent + 1
    /\ UNCHANGED <<handleVars, spawnVars, procVars, loopVars, histVars, timeVars>>
    /\ UNCHANGED resVars
    /\ UNCHANGED wire

\* a peer sends a message to this node: it waits in network_events
PeerSend(k, e, most) ==
    /\ rtAlive
    /\ netSpawned > 0
    /\ sent + Len(wire) < most
    /\ k \in ManagerKinds => e # epoch
    /\ wire' = Append(wire, [kind |-> k, ep |-> e])
    /\ UNCHANGED <<handleVars, spawnVars, procVars, chanVars, loopVars, histVars,
                   timeVars, resVars>>

\* a send on the bounded channel of kind k completes
HasRoom(c, k) == Len(c[k]) < Capacity

\* NetworkTask::start with bounded channels: the task takes the next message of
\* network_events and sends it on the channel of its kind, suspended for as long
\* as that channel is full
NetworkTaskForward ==
    /\ rtAlive
    /\ netSpawned > 0
    /\ wire # <<>>
    /\ HasRoom(chan, Head(wire).kind)
    /\ chan' = Enqueue(chan, Head(wire).kind, [ep |-> Head(wire).ep, id |-> sent + 1])
    /\ sent' = sent + 1
    /\ wire' = Tail(wire)
    /\ UNCHANGED <<handleVars, spawnVars, procVars, loopVars, histVars, timeVars,
                   resVars>>

\* the clock advances while the loop waits or works
Tick ==
    /\ rtAlive
    /\ pc \notin {"none", "gen", "start"}
    /\ elapsed < MaxTick
    /\ elapsed' = elapsed + 1
    /\ UNCHANGED <<handleVars, spawnVars, procVars, chanVars, loopVars, histVars,
                   idle, sample>>
    /\ UNCHANGED resVars
    /\ UNCHANGED wire

(* ---------------------- gen_event_processor ---------------------------- *)
\* the spawned future begins: match processor
GenEventProcessor ==
    /\ rtAlive
    /\ pc = "gen"
    /\ IF EntersSubLoop(variant)
          THEN /\ pc' = "sync_select"
               /\ subLoopEntered' = TRUE
          ELSE /\ pc' = "start"
               /\ UNCHANGED subLoopEntered
    /\ elapsed' = 0
    /\ idle' = 0
    /\ UNCHANGED <<handleVars, spawnVars, procVars, chanVars, cur, inflight, calls,
                   call, sample>>
    /\ UNCHANGED <<storageKind, resolutions, transitions, prevEpoch, transSent,
                   selSent, resolveSent, dequeued, iters, samples>>
    /\ UNCHANGED resVars
    /\ UNCHANGED wire

\* select! of the sub-loop: receiver k yields its next message; the arm takes
\* idle_duration and calls the handler of its kind
SyncSelect(k) ==
    /\ rtAlive
    /\ SyncSelectReady
    /\ chan[k] # <<>>
    /\ cur' = Selected(chan, k)
    /\ chan' = Dequeue(chan, k)
    /\ idle' = elapsed
    /\ dequeued' = dequeued + 1
    /\ IF k = "epoch_change"
          THEN /\ calls' = 0
               /\ UNCHANGED <<inflight, call>>
          ELSE /\ calls' = 1
               /\ inflight' = inflight + 1
               /\ call' = CallOf(IF k \in RecoveryKinds THEN "startup_sync_processor"
                                                       ELSE "epoch_manager",
                                 Selected(chan, k))
    /\ pc' = "sync_handle"
    /\ UNCHANGED <<handleVars, spawnVars, procVars, sent, elapsed, sample>>
    /\ UNCHANGED <<storageKind, subLoopEntered, resolutions, transitions, prevEpoch,
                   transSent, selSent, resolveSent, iters, samples>>
    /\ handled' = handled \cup {Head(chan[k]).id}
    /\ UNCHANGED wire

\* proposal / vote / sync-info arm, the call returned Err: nothing more is done
SyncRecoveryFails ==
    /\ rtAlive
    /\ pc = "sync_handle"
    /\ cur.kind \in RecoveryKinds
    /\ inflight' = inflight - 1
    /\ call' = NoCall
    /\ pc' = "sync_record"
    /\ UNCHANGED <<cur, handleVars, spawnVars, procVars, chanVars, calls, histVars, timeVars>>
    /\ UNCHANGED handled
    /\ UNCHANGED wire

\* proposal / vote / sync-info arm, the call returned Ok(initial_data):
\* break epoch_manager.start_epoch_with_recovery_data(initial_data)
SyncRecoverySucceeds ==
    /\ rtAlive
    /\ pc = "sync_handle"
    /\ cur.kind \in RecoveryKinds
    /\ CanRecoverFrom(cur, epoch)
    /\ inflight' = inflight - 1
    /\ call' = NoCall
    /\ variant' = "EventProcessor"
    /\ procId' = procId + 1
    /\ procEpoch' = epoch
    /\ hooks' = 0
    /\ resolutions' = resolutions + 1
    /\ resolveSent' = sent
    /\ iters' = iters + 1
    /\ cur' = NoMsg
    /\ calls' = 0
    /\ pc' = AfterBreak
    /\ block_store' = BlockStoreOfHandle(block_store, procId + 1)
    /\ UNCHANGED <<input, runtime, callerPc, startResult, started, spawnVars,
                   epoch, chanVars, timeVars>>
    /\ UNCHANGED <<storageKind, subLoopEntered, transitions, prevEpoch, transSent,
                   selSent, dequeued, samples>>
    /\ UNCHANGED resVars
    /\ UNCHANGED wire

\* epoch-change arm, the guard fails: nothing is done
SyncEpochChangeStale ==
    /\ rtAlive
    /\ pc = "sync_handle"
    /\ cur.kind = "epoch_change"
    /\ ~EpochGuard(epoch, cur.ep)
    /\ pc' = "sync_record"
    /\ UNCHANGED <<cur, handleVars, spawnVars, procVars, chanVars, inflight, calls,
                   call, histVars, timeVars>>
    /\ UNCHANGED resVars
    /\ UNCHANGED wire

\* epoch-change arm, the guard holds: epoch_manager.start_new_epoch(ledger_info)
SyncEpochChange ==
    /\ rtAlive
    /\ pc = "sync_handle"
    /\ cur.kind = "epoch_change"
    /\ EpochGuard(epoch, cur.ep)
    /\ prevEpoch' = epoch
    /\ epoch' = EpochAfterStartNewEpoch(cur.ep)
    /\ variant' = "EventProcessor"
    /\ procId' = procId + 1
    /\ procEpoch' = EpochAfterStartNewEpoch(cur.ep)
    /\ hooks' = 0
    /\ calls' = calls + 1
    /\ resolutions' = resolutions + 1
    /\ transitions' = transitions + 1
    /\ transSent' = sent
    /\ selSent' = cur.at
    /\ pc' = "sync_clear"
    /\ block_store' = BlockStoreOfHandle(block_store, procId + 1)
    /\ UNCHANGED <<input, runtime, callerPc, startResult, started, spawnVars,
                   chanVars, cur, inflight, call, timeVars>>
    /\ UNCHANGED <<storageKind, subLoopEntered, resolveSent, dequeued, iters, samples>>
    /\ UNCHANGED resVars
    /\ UNCHANGED wire

\* epoch-change arm, continued: clear_prev_epoch_msgs(); break event_processor
SyncClear ==
    /\ rtAlive
    /\ pc = "sync_clear"
    /\ chan' = ClearPrevEpochMsgs(chan)
    /\ iters' = iters + 1
    /\ cur' = NoMsg
    /\ calls' = 0
    /\ pc' = AfterBreak
    /\ UNCHANGED <<handleVars, spawnVars, procVars, sent, inflight, call,
                   timeVars>>
    /\ UNCHANGED <<storageKind, subLoopEntered, resolutions, transitions, prevEpoch,
                   transSent, selSent, resolveSent, dequeued, samples>>
    /\ UNCHANGED resVars
    /\ UNCHANGED wire

\* different-epoch arm: epoch_manager.process_different_epoch(..) returned
SyncDifferentEpoch ==
    /\ rtAlive
    /\ pc = "sync_handle"
    /\ cur.kind = "different_epoch"
    /\ inflight' = inflight - 1
    /\ call' = NoCall
    /\ pc' = AfterDifferentEpoch
    /\ UNCHANGED <<cur, handleVars, spawnVars, procVars, chanVars, calls, histVars, timeVars>>
    /\ UNCHANGED resVars
    /\ UNCHANGED wire

\* the end of the sub-loop's body: the busy and the idle duration are observed
SyncRecord ==
    /\ rtAlive
    /\ pc = "sync_record"
    /\ sample' = TimingSample(elapsed, idle)
    /\ samples' = samples + 1
    /\ iters' = iters + 1
    /\ elapsed' = 0
    /\ idle' = 0
    /\ calls' = 0
    /\ cur' = NoMsg
    /\ pc' = "sync_select"
    /\ UNCHANGED <<handleVars, spawnVars, procVars, chanVars, inflight, call>>
    /\ UNCHANGED <<storageKind, subLoopEntered, resolutions, transitions, prevEpoch,
                   transSent, selSent, resolveSent, dequeued>>
    /\ UNCHANGED handled
    /\ UNCHANGED wire

(* ---------------------- start_event_processing ------------------------- *)
\* event_processor.start().await before the loop
StartHook ==
    /\ rtAlive
    /\ pc = "start"
    /\ hooks' = hooks + 1
    /\ elapsed' = 0
    /\ idle' = 0
    /\ pc' = "select"
    /\ UNCHANGED <<handleVars, spawnVars, epoch, variant, procId, procEpoch, chanVars,
                   cur, inflight, calls, call, histVars, sample>>
    /\ UNCHANGED resVars
    /\ UNCHANGED wire

\* select! of the steady-state loop: receiver k yields its next message; the
\* arm takes idle_duration and calls the handler of its kind
Select(k) ==
    /\ rtAlive
    /\ SelectReady
    /\ chan[k] # <<>>
    /\ cur' = Selected(chan, k)
    /\ chan' = Dequeue(chan, k)
    /\ idle' = elapsed
    /\ dequeued' = dequeued + 1
    /\ IF k = "epoch_change"
          THEN /\ calls' = 0
               /\ UNCHANGED <<inflight, call>>
          ELSE /\ calls' = 1
               /\ inflight' = inflight + 1
               /\ call' = CallOf(IF k \in ProcessorKinds THEN "event_processor"
                                                        ELSE "epoch_manager",
                                 Selected(chan, k))
    /\ pc' = "handle"
    /\ UNCHANGED <<handleVars, spawnVars, procVars, sent, elapsed, sample>>
    /\ UNCHANGED <<storageKind, subLoopEntered, resolutions, transitions, prevEpoch,
                   transSent, selSent, resolveSent, iters, samples>>
    /\ handled' = handled \cup {Head(chan[k]).id}
    /\ UNCHANGED wire

\* a process_* call on the EventProcessor or on the EpochManager returned; it
\* hands no error to the loop, whether it worked or failed inside
HandlerReturns ==
    /\ rtAlive
    /\ pc = "handle"
    /\ cur.kind # "epoch_change"
    /\ inflight' = inflight - 1
    /\ call' = NoCall
    /\ pc' = "record"
    /\ UNCHANGED <<cur, handleVars, spawnVars, procVars, chanVars, calls, histVars, timeVars>>
    /\ UNCHANGED handled
    /\ UNCHANGED wire

\* epoch-change arm, the guard fails: nothing is done
EpochChangeStale ==
    /\ rtAlive
    /\ pc = "handle"
    /\ cur.kind = "epoch_change"
    /\ ~EpochGuard(epoch, cur.ep)
    /\ pc' = "record"
    /\ UNCHANGED <<cur, handleVars, spawnVars, procVars, chanVars, inflight, calls,
                   call, histVars, timeVars>>
    /\ UNCHANGED resVars
    /\ UNCHANGED wire

\* epoch-change arm, the guard holds:
\* event_processor = epoch_manager.start_new_epoch(ledger_info).await
EpochChange ==
    /\ rtAlive
    /\ pc = "handle"
    /\ cur.kind = "epoch_change"
    /\ EpochGuard(epoch, cur.ep)
    /\ prevEpoch' = epoch
    /\ epoch' = EpochAfterStartNewEpoch(cur.ep)
    /\ procId' = procId + 1
    /\ procEpoch' = EpochAfterStartNewEpoch(cur.ep)
    /\ hooks' = 0
    /\ calls' = calls + 1
    /\ transitions' = transitions + 1
    /\ transSent' = sent
    /\ selSent' = cur.at
    /\ pc' = "ec_clear"
    /\ block_store' = BlockStoreOfHandle(block_store, procId + 1)
    /\ UNCHANGED <<input, runtime, callerPc, startResult, started, spawnVars,
                   variant, chanVars, cur, inflight, call, timeVars>>
    /\ UNCHANGED <<storageKind, subLoopEntered, resolutions, resolveSent, dequeued,
                   iters, samples>>
    /\ UNCHANGED resVars
    /\ UNCHANGED wire

\* epoch-change arm, continued: network_receivers.clear_prev_epoch_msgs()
EpochChangeClear ==
    /\ rtAlive
    /\ pc = "ec_clear"
    /\ chan' = ClearPrevEpochMsgs(chan)
    /\ pc' = AfterClear
    /\ UNCHANGED <<handleVars, spawnVars, procVars, sent, cur, inflight, calls, call,
                   histVars, timeVars>>
    /\ UNCHANGED resVars
    /\ UNCHANGED wire

\* epoch-change arm, its end: event_processor.start().await
EpochChangeStart ==
    /\ rtAlive
    /\ pc = "ec_start"
    /\ hooks' = hooks + 1
    /\ calls' = calls + 1
    /\ pc' = "record"
    /\ UNCHANGED <<cur, handleVars, spawnVars, epoch, variant, procId, procEpoch, chanVars,
                   inflight, call, histVars, timeVars>>
    /\ UNCHANGED resVars
    /\ UNCHANGED wire

\* the end of the loop's body: the busy and the idle duration are observed
Record ==
    /\ rtAlive
    /\ pc = "record"
    /\ sample' = TimingSample(elapsed, idle)
    /\ samples' = samples + 1
    /\ iters' = iters + 1
    /\ elapsed' = 0
    /\ idle' = 0
    /\ calls' = 0
    /\ cur' = NoMsg
    /\ pc' = AfterIteration
    /\ UNCHANGED <<handleVars, spawnVars, procVars, chanVars, inflight, call>>
    /\ UNCHANGED <<storageKind, subLoopEntered, resolutions, transitions, prevEpoch,
                   transSent, selSent, resolveSent, dequeued>>
    /\ UNCHANGED handled
    /\ UNCHANGED wire

(* --------------------------- specifications ---------------------------- *)
Lifecycle == StartPanic \/ StartSpawn \/ StartReturn \/ Stop

Producers == (\E k \in BundleKinds, e \in Epochs : NetworkTaskSend(k, e)) \/ LocalTimeout

SubLoop ==
    \/ GenEventProcessor
    \/ \E k \in SyncKinds : SyncSelect(k)
    \/ SyncRecoveryFails
    \/ SyncRecoverySucceeds
    \/ SyncEpochChangeStale
    \/ SyncEpochChange
    \/ SyncClear
    \/ SyncDifferentEpoch
    \/ SyncRecord

SteadyLoop ==
    \/ StartHook
    \/ \E k \in SteadyKinds : Select(k)
    \/ HandlerReturns
    \/ EpochChangeStale
    \/ EpochChange
    \/ EpochChangeClear
    \/ EpochChangeStart
    \/ Record

Next == Lifecycle \/ Producers \/ SubLoop \/ SteadyLoop

Spec == Init /\ [][Next]_vars

\* the same program with the clock of the timing samples running
SpecTime == Init /\ [][Next \/ Tick]_vars

(* the program with bounded channels, in the runs where stop() is not called and
   peers send at most that many messages *)
BoundedProducers(most) ==
    \/ \E k \in BundleKinds, e \in Epochs : PeerSend(k, e, most)
    \/ NetworkTaskForward
    \/ LocalTimeout

NextLive(most) ==
    StartSpawn \/ StartReturn \/ BoundedProducers(most) \/ SubLoop \/ SteadyLoop

\* the runtime runs each spawned task that can take a step
TaskFairness ==
    /\ WF_vars(NetworkTaskForward)
    /\ WF_vars(SubLoop \/ SteadyLoop)

\* the select! of the steady-state loop is fair to each of its arms
FairSelect == \A k \in SteadyKinds : SF_vars(Select(k))

\* the select! of the sub-loop is fair to each of its arms
FairSyncSelect == \A k \in SyncKinds : SF_vars(SyncSelect(k))

SpecLive == Init /\ [][NextLive(MaxSent)]_vars /\ TaskFairness /\ FairSelect

\* the same with one message more, enough to fill a channel and leave two
\* waiting, and the fairness of the select! of the sub-loop
SpecFlood == Init /\ [][NextLive(MaxLive)]_vars /\ TaskFairness /\ FairSyncSelect

(* ------------------------------- claims -------------------------------- *)
\* a handler of the current EventProcessor is running on a message
ToProcessor == call.target = "event_processor" /\ call.proc = procId

\* C1: after an epoch transition (an accepted epoch-change notification), no
\* message enqueued before the transition that belongs to an epoch before that
\* of the new EventProcessor is passed to a handler of the new EventProcessor.
C1_NoStaleDeliveryAfterTransition ==
    ~(/\ ToProcessor
      /\ transitions > 0
      /\ call.id <= transSent
      /\ call.ep < call.procEpoch)

\* C2: when the sub-loop resolves from recovery data into the EventProcessor of
\* epoch e, no message of an epoch lower than e that was queued at that moment
\* is passed to a handler of that EventProcessor.
C2_NoStaleDeliveryAfterRecovery ==
    ~(/\ ToProcessor
      /\ resolveSent > 0
      /\ transitions = 0
      /\ call.id <= resolveSent
      /\ call.ep < call.procEpoch)

\* the loop handles an epoch-change notification of an epoch below the current
StaleNotificationStep ==
    /\ pc \in {"handle", "sync_handle"}
    /\ cur.kind = "epoch_change"
    /\ cur.ep < epoch
    /\ pc' # pc

\* C3: handling an epoch-change notification whose epoch is below the current
\* epoch rebuilds no processor, leaves the epoch and every queue as they are,
\* runs no start hook, makes no handler call, and the sub-loop does not exit.
C3_StaleNotificationChangesNothing ==
    [][StaleNotificationStep =>
          /\ UNCHANGED <<procVars, chanVars, inflight, calls, call>>
          /\ UNCHANGED <<resolutions, transitions>>
          /\ pc' = (IF pc = "sync_handle" THEN "sync_record" ELSE "record")]_vars

C3_Witness ==
    /\ pc = "sync_record"
    /\ cur.kind = "epoch_change"
    /\ cur.ep < epoch
    /\ variant = "StartupSyncProcessor"
    /\ \E k \in BundleKinds : chan[k] # <<>>

\* C4: the Processor goes from StartupSyncProcessor to EventProcessor at most
\* once, and once it is an EventProcessor it stays one.
C4_ResolvesOnce ==
    [][/\ variant = "EventProcessor" => variant' = "EventProcessor"
       /\ variant' = "StartupSyncProcessor" => variant \in {"None", "StartupSyncProcessor"}
       /\ resolutions' <= 1]_vars

C4_Witness ==
    /\ storageKind = "StartupSyncProcessor"
    /\ variant = "EventProcessor"
    /\ resolutions = 1
    /\ transitions > 1

\* C5: once start() has been called, a further call panics, whatever stop()
\* calls came in between: no step of the caller takes the input again, spawns a
\* NetworkTask or a loop, or gives start() another outcome than the panic.
C5_SecondStartPanics ==
    [][(started /\ callerPc = "idle") =>
          /\ callerPc' = "idle"
          /\ startResult' # startResult => startResult' = "panic"
          /\ UNCHANGED <<input, block_store, netSpawned, loopSpawned>>
          /\ ~rtAlive => ~rtAlive']_vars

C5_Witness ==
    /\ startResult = "panic"
    /\ started
    /\ ~runtime
    /\ ~rtAlive
    /\ netSpawned = 1
    /\ loopSpawned = 1

\* C6: on an accepted notification in the steady-state loop the processor is
\* rebuilt, the bundle is cleared and the start hook runs, in this order and
\* with no handler call in between; no message that was queued when the
\* notification was selected is passed to a handler of the new processor.
C6_TransitionDropsQueued ==
    /\ pc \in {"ec_clear", "ec_start"} => (inflight = 0 /\ hooks = 0)
    /\ ~(/\ ToProcessor
         /\ call.proc > 1
         /\ call.id <= selSent)

\* the loop handles an epoch-change notification of the current epoch
SameEpochNotificationStep ==
    /\ pc \in {"handle", "sync_handle"}
    /\ cur.kind = "epoch_change"
    /\ cur.ep = epoch
    /\ pc' # pc

\* the loop goes on with the arm of a notification of the then current epoch
SameEpochArmStep(at) ==
    /\ pc = at
    /\ cur.kind = "epoch_change"
    /\ cur.ep = prevEpoch
    /\ pc' # pc

BundleEmpty(c) == \A k \in BundleKinds : c[k] = <<>>

\* C7: a notification whose epoch equals the current epoch is accepted in both
\* loops: start_new_epoch builds a new EventProcessor, the bundle is cleared,
\* then the steady-state loop runs the start hook and the sub-loop exits.
C7_SameEpochRebuilds ==
    [][/\ SameEpochNotificationStep =>
             /\ procId' = procId + 1
             /\ transitions' = transitions + 1
             /\ variant' = "EventProcessor"
             /\ procEpoch' = epoch'
             /\ hooks' = 0
             /\ pc' = (IF pc = "sync_handle" THEN "sync_clear" ELSE "ec_clear")
       /\ SameEpochArmStep("ec_clear") => (BundleEmpty(chan') /\ pc' = "ec_start")
       /\ SameEpochArmStep("ec_start") => (hooks' = 1 /\ pc' = "record")
       /\ SameEpochArmStep("sync_clear") => (BundleEmpty(chan') /\ pc' = "start")]_vars

C7_Witness ==
    /\ pc = "record"
    /\ cur.kind = "epoch_change"
    /\ cur.ep = prevEpoch
    /\ calls > 1
    /\ hooks = 1
    /\ procId > 1

\* C8, as stated: every message the steady-state loop dequeues leads to exactly
\* one handler call, and no two handler calls are in progress at a time.
C8_OneCallPerMessage ==
    /\ inflight <= 1
    /\ pc = "record" => calls = 1

\* C8, amended: every dequeued message other than an epoch-change notification
\* leads to exactly one handler call; a notification leads to none when its
\* epoch is below the current one and else to start_new_epoch followed by the
\* start hook; the call has returned before the next message is dequeued, no
\* two calls are in progress at a time and none is when the processor is
\* replaced.
C8_OneMessageAtATime ==
    /\ inflight <= 1
    /\ (pc = "record" /\ cur.kind # "epoch_change") => calls = 1
    /\ (pc = "record" /\ cur.kind = "epoch_change") =>
          calls = (IF cur.ep < epoch THEN 0 ELSE 2)
    /\ inflight = 1 <=> (pc \in {"handle", "sync_handle"} /\ cur.kind # "epoch_change")
    /\ inflight = 1 <=> call # NoCall
    /\ pc \in {"select", "sync_select"} => (inflight = 0 /\ cur = NoMsg)
    /\ pc \in {"ec_clear", "ec_start", "sync_clear"} => inflight = 0
    /\ call.target = "event_processor" => call.proc = procId

C8_Witness ==
    /\ pc = "handle"
    /\ inflight = 1
    /\ call.target = "event_processor"
    /\ \E k \in SteadyKinds : chan[k] # <<>>

\* C9: every iteration of either loop records one idle and one busy sample,
\* whose sum is the time the iteration took.
C9_EveryIterationSampled ==
    /\ samples = iters
    /\ sample.idle + sample.busy = sample.total

\* C10: when storage resolves an EventProcessor, start() returns Ok with the
\* block store of that processor published, the sub-loop is not entered and
\* nothing is dequeued before the start hook; when storage resolves a
\* StartupSyncProcessor, start() returns Ok with no block store published.
C10_StartPublishes ==
    /\ (callerPc = "idle" /\ started) => startResult \in {"Ok", "panic"}
    /\ storageKind = "EventProcessor" =>
          /\ block_store = 1
          /\ ~subLoopEntered
          /\ (hooks = 0 /\ procId = 1) => dequeued = 0
    /\ storageKind = "StartupSyncProcessor" => block_store = 0

C10_Witness ==
    /\ startResult = "Ok"
    /\ storageKind = "EventProcessor"
    /\ block_store = 1
    /\ pc = "handle"
    /\ hooks = 1

\* the loop leaves the arm of a different-epoch or epoch-retrieval message
ManagerArmStep ==
    /\ pc \in {"handle", "sync_handle"}
    /\ cur.kind \in ManagerKinds
    /\ pc' # pc

\* the select! yields a different-epoch or epoch-retrieval message
ManagerSelectStep ==
    /\ pc \in {"select", "sync_select"}
    /\ pc' \in {"handle", "sync_handle"}
    /\ cur'.kind \in ManagerKinds

\* C11: handling a different-epoch or an epoch-retrieval message leaves the
\* variant, the current processor, the epoch and the other receivers as they
\* are, and a different-epoch message does not make the sub-loop exit.
C11_EpochMismatchChangesNothing ==
    [][/\ ManagerSelectStep =>
             /\ UNCHANGED procVars
             /\ \A k \in SteadyKinds \ {cur'.kind} : chan'[k] = chan[k]
             /\ chan'[cur'.kind] = Tail(chan[cur'.kind])
       /\ ManagerArmStep =>
             /\ UNCHANGED <<procVars, chanVars, resolutions, transitions>>
             /\ pc' = (IF pc = "sync_handle" THEN "sync_record" ELSE "record")]_vars

C11_Witness ==
    /\ pc = "sync_record"
    /\ cur.kind = "different_epoch"
    /\ variant = "StartupSyncProcessor"
    /\ procId = 0
    /\ \E k \in BundleKinds : chan[k] # <<>>

\* a handler call of the loop returns and the sub-loop is not resolved by it:
\* an Err from the StartupSyncProcessor, a call on the EpochManager, or a
\* process_* call of the steady-state loop, whether it worked or failed inside
FailureStep ==
    /\ pc \in {"handle", "sync_handle"}
    /\ call # NoCall
    /\ call' = NoCall
    /\ resolutions' = resolutions

\* the loop leaves the end of the body of an iteration
AfterFailureStep ==
    /\ pc \in {"record", "sync_record"}
    /\ pc' # pc

\* the select! of either loop yields a message
AnySelectStep ==
    /\ pc \in {"select", "sync_select"}
    /\ pc' \in {"handle", "sync_handle"}

\* C12: a failing handler call changes neither the variant nor the processor:
\* the sub-loop stays in Startup-Recovery and the steady-state loop keeps its
\* processor, each going on to its next select!; no message is yielded by a
\* select! a second time, so a failed message is never handled again.
C12_FailureIsLocal ==
    [][/\ FailureStep =>
             /\ UNCHANGED <<procVars, chanVars, transitions>>
             /\ pc' = (IF pc = "sync_handle" THEN "sync_record" ELSE "record")
       /\ AfterFailureStep =>
             /\ UNCHANGED <<procVars, chanVars>>
             /\ pc' = (IF pc = "sync_record" THEN "sync_select" ELSE "select")
       /\ AnySelectStep =>
             /\ cur'.id \notin handled
             /\ \A k \in SteadyKinds : \A i \in 1..Len(chan'[k]) :
                   chan'[k][i].id \notin handled']_vars

C12_Witness ==
    /\ pc = "sync_record"
    /\ cur.kind \in RecoveryKinds
    /\ variant = "StartupSyncProcessor"
    /\ \E k \in SyncKinds : chan[k] # <<>>

(* C13: once stop() has returned after a start() that spawned the tasks, neither
   the Network Task nor the dispatch loop takes a step: nothing is enqueued,
   dequeued or handled, the processor and the epoch stay as they were, and the
   messages still queued stay queued. *)
Stopped ==
    /\ netSpawned > 0
    /\ callerPc = "idle"
    /\ ~runtime

C13_StopIsHard ==
    [][Stopped => UNCHANGED <<spawnVars, procVars, chanVars, loopVars, histVars,
                              resVars>>]_vars

\* stopped with the loop at its select!, a message still queued and the Network
\* Task not yet at the end of what it had to send
C13_Witness ==
    /\ Stopped
    /\ pc = "select"
    /\ sent < MaxSent
    /\ \E k \in SteadyKinds : chan[k] # <<>>

(* C14: the start hook of the current Steady-State processor is invoked at most
   once, it has been invoked exactly once whenever the steady-state loop is at
   its select!, in a handler or at the end of an iteration, a processor just
   built by an epoch change has not been started before its own start step, and
   every handler call on a processor is made on the current processor after its
   start hook has run. *)
C14_StartHookOnce ==
    /\ hooks <= 1
    /\ pc \in {"select", "handle", "record"} => variant = "EventProcessor" /\ hooks = 1
    /\ pc \in {"start", "ec_clear", "ec_start"} => variant = "EventProcessor" /\ hooks = 0
    /\ variant = "StartupSyncProcessor" => hooks = 0
    /\ (call # NoCall /\ call.target = "event_processor" /\ variant = "EventProcessor")
          => call.proc = procId /\ hooks = 1

\* a handler call on a processor that an epoch change built in the steady-state loop
C14_Witness ==
    /\ transitions > 0
    /\ pc = "handle"
    /\ call # NoCall
    /\ call.target = "event_processor"
    /\ call.proc = procId
    /\ procId > 1
    /\ hooks = 1

\* the messages of a receiver, oldest first
InEnqueueOrder(q) ==
    \A i \in 1..Len(q) : \A j \in 1..Len(q) : i < j => q[i].id < q[j].id

(* C15: every receiver holds its messages in the order they were enqueued, and
   the select! of either loop, the sub-loop and the steady-state loop reading
   the same receivers, yields from a receiver the message enqueued first among
   those still queued on it and leaves the others in place; which receiver
   yields is not constrained. *)
C15_ChannelOrder ==
    /\ [](\A k \in SteadyKinds : InEnqueueOrder(chan[k]))
    /\ [][AnySelectStep =>
             \E k \in SteadyKinds :
                /\ chan[k] # <<>>
                /\ cur'.kind = k
                /\ cur'.id = Head(chan[k]).id
                /\ \A i \in 2..Len(chan[k]) : cur'.id < chan[k][i].id
                /\ chan' = [chan EXCEPT ![k] = Tail(@)]]_vars

\* the sub-loop is on the message that resolves the recovery, the next message
\* of the same receiver is left to the steady-state loop
C15_Witness ==
    /\ pc = "sync_handle"
    /\ cur.kind \in RecoveryKinds
    /\ CanRecoverFrom(cur, epoch)
    /\ chan[cur.kind] # <<>>
    /\ Head(chan[cur.kind]).id > cur.id

\* the kinds of message the steady-state loop reads and the sub-loop does not
SteadyOnlyKinds == {"block_retrieval", "epoch_retrieval", "local_timeout"}

\* q2 is q1, or q1 with messages added at its tail
Extends(q2, q1) ==
    /\ Len(q2) >= Len(q1)
    /\ SubSeq(q2, 1, Len(q1)) = q1

(* C16: while the processor is the StartupSyncProcessor, no step takes a
   block-retrieval, epoch-retrieval or local-timeout message off its receiver:
   those receivers only grow, the message the loop is on is never of one of
   these kinds, and no handler is called for one. *)
C16_SubLoopLeavesSteadyOnly ==
    [][variant = "StartupSyncProcessor" =>
          /\ \A k \in SteadyOnlyKinds : Extends(chan'[k], chan[k])
          /\ cur'.kind \notin SteadyOnlyKinds
          /\ call'.kind \notin SteadyOnlyKinds]_vars

\* a block-retrieval or epoch-retrieval message enqueued before the recovery
\* resolved is handled by the steady-state loop
C16_Witness ==
    /\ pc = "handle"
    /\ resolutions = 1
    /\ subLoopEntered
    /\ cur.kind \in SteadyOnlyKinds
    /\ cur.id < resolveSent
    /\ call.target \in {"event_processor", "epoch_manager"}

(* C19: self.block_store is written by start() and by nothing else: it changes
   only in the step of start() that publishes it, so a handle whose storage
   resolved to the StartupSyncProcessor exposes no block tree whatever the loop
   has resolved since, and a handle whose storage resolved to an EventProcessor
   exposes the tree of that first processor whatever processor is current. *)
C19_PublishedOnlyByStart ==
    [][/\ block_store' # block_store =>
             (callerPc = "idle" /\ callerPc' = "starting" /\ storageKind = "none")
       /\ storageKind' = "StartupSyncProcessor" => block_store' = 0
       /\ storageKind' = "EventProcessor" => block_store' = 1]_vars

\* started in Startup-Recovery, resolved, then moved to a new epoch: two
\* processors have been current and the handle exposes no block tree
C19_Witness ==
    /\ startResult = "Ok"
    /\ storageKind = "StartupSyncProcessor"
    /\ resolutions = 1
    /\ transitions > 0
    /\ procId = 2
    /\ pc = "select"
    /\ block_store = 0

\* a peer has sent an epoch-change notification that passes the guard of the
\* sub-loop, and the Network Task has yet to take it
ResolvingOnWire ==
    \E i \in 1..Len(wire) :
       /\ wire[i].kind = "epoch_change"
       /\ EpochGuard(epoch, wire[i].ep)

(* C17: with bounded channels whose sender suspends on a full channel, a fair
   select! and a runtime that runs every task that can step, whenever the
   processor is the StartupSyncProcessor and a peer has sent an epoch-change
   notification of an epoch not below the manager's, the processor eventually
   becomes an EventProcessor. *)
C17_RecoveryResolves ==
    (variant = "StartupSyncProcessor" /\ ResolvingOnWire) ~> (variant = "EventProcessor")

\* message i waits on one of the channels
Queued(i) ==
    \E k \in DOMAIN chan : \E j \in 1..Len(chan[k]) : chan[k][j].id = i

(* C18: with a fair select! and no stop(), every message that waits on one of
   the eight channels while the processor is an EventProcessor eventually leaves
   its channel, which only a select! yielding it to its handler or the clearing
   of an epoch change makes it do. *)
C18_NoMessageWaitsForever ==
    \A i \in 1..MaxSent : (variant = "EventProcessor" /\ Queued(i)) ~> ~Queued(i)

\* the steady-state loop is on the first message enqueued after it has handled
\* the second: the first waited through the traffic of another channel
C18_Witness ==
    /\ pc = "handle"
    /\ resolutions = 0
    /\ transitions = 0
    /\ variant = "EventProcessor"
    /\ cur.id = 1
    /\ 2 \in handled
    /\ wire = <<>>

====
